---- MODULE Spec2Model ----
(***************************************************************************)
(* Model of src/xmlfmt/de.rs of xml-rpc-rs: the conversion of the tree     *)
(* that serde_xml_rs deserializes (XmlValue, XmlCall, XmlResponse) into    *)
(* the typed model (Value, Call, Response), and the three entry points     *)
(* parse_xml, parse_call and parse_response.                               *)
(*                                                                         *)
(* A wire node is a record [tag, content]; a Value is a record             *)
(* [type, payload]; a Result is Ok(val) or Err(chain), the chain being the *)
(* error_chain messages, outermost first.  The text of a double node is a  *)
(* sequence of characters, so that str::parse::<f64> is modelled by what   *)
(* it does.                                                                *)
(***************************************************************************)
EXTENDS Integers, Sequences, FiniteSets, TLC

VARIABLES stream, called, result

vars == <<stream, called, result>>

---------------------------------------------------------------------------
(* Bounds of the input universe. *)

MaxItems == 3

MaxMembers == 3

MaxParams == 2

---------------------------------------------------------------------------
(* Result<T> of error_chain. *)

Ok(v) == [ok |-> TRUE, val |-> v]

Err(chain) == [ok |-> FALSE, err |-> chain]

ChainErr(r, msg) == IF r.ok THEN r ELSE Err(<<msg>> \o r.err)

Bail(msg) == Err(<<msg>>)

---------------------------------------------------------------------------
(* The typed model: Value, Call, Response (super::{Call, Response, Value}). *)

VInt(n) == [type |-> "Int", payload |-> n]

VBool(b) == [type |-> "Bool", payload |-> b]

VString(s) == [type |-> "String", payload |-> s]

VDouble(d) == [type |-> "Double", payload |-> d]

VDateTime(s) == [type |-> "DateTime", payload |-> s]

VBase64(s) == [type |-> "Base64", payload |-> s]

VArray(items) == [type |-> "Array", payload |-> items]

VStruct(fields) == [type |-> "Struct", payload |-> fields]

MkCall(name, params) == [name |-> name, params |-> params]

Success(params) == [kind |-> "Success", params |-> params]

Fault(code, message) == [kind |-> "Fault", code |-> code, message |-> message]

---------------------------------------------------------------------------
(* str::parse::<f64> on the characters sign, digit and point: an optional  *)
(* sign, then digits with at most one point and at least one digit.  The   *)
(* value is kept as a decimal: mantissa m and number e of fraction digits, *)
(* trailing fraction zeros removed, standing for m / 10^e.                 *)

Digits == {"0", "1", "2", "3", "4", "5", "6", "7", "8", "9"}

DigitVal(c) ==
    CASE c = "0" -> 0 [] c = "1" -> 1 [] c = "2" -> 2 [] c = "3" -> 3
      [] c = "4" -> 4 [] c = "5" -> 5 [] c = "6" -> 6 [] c = "7" -> 7
      [] c = "8" -> 8 [] c = "9" -> 9

RECURSIVE DigitsVal(_)
DigitsVal(s) ==
    IF s = <<>> THEN 0
    ELSE DigitsVal(SubSeq(s, 1, Len(s) - 1)) * 10 + DigitVal(s[Len(s)])

RECURSIVE Normal(_, _)
Normal(m, e) == IF e > 0 /\ m % 10 = 0 THEN Normal(m \div 10, e - 1) ELSE [m |-> m, e |-> e]

ParseF64(t) ==
    IF t = <<>> THEN Err(<<"cannot parse float from empty string">>)
    ELSE
      LET signed == t[1] \in {"+", "-"}
          body   == IF signed THEN Tail(t) ELSE t
          points == {i \in 1..Len(body) : body[i] = "."}
          digs   == SelectSeq(body, LAMBDA c : c \in Digits)
          wellformed == /\ \A i \in 1..Len(body) : body[i] \in Digits \cup {"."}
                        /\ Cardinality(points) <= 1
                        /\ digs /= <<>>
          frac   == IF points = {} THEN 0 ELSE Len(body) - (CHOOSE i \in points : TRUE)
          mag    == DigitsVal(digs)
      IN IF ~wellformed THEN Err(<<"invalid float literal">>)
         ELSE Ok(Normal(IF t[1] = "-" THEN 0 - mag ELSE mag, frac))

---------------------------------------------------------------------------
(* impl Into<Result<Value>> for XmlValue and the collecting conversions.   *)
(* The wrappers XmlArray {data}, XmlArrayData {value} and XmlParamData     *)
(* {value} carry one field and convert by delegating to it: the content of *)
(* an array node is the sequence of its value nodes, that of a struct node *)
(* the sequence of its members [name, value].                              *)

(* The i4 arm converting as the boolean arm does. *)
I4Arm_AsBool(v) == VBool(v /= 0)

I4Arm(v) == VInt(v)

IntArm(v) == VInt(v)

(* Only 1 is true. *)
BoolArm_OnlyOne(v) == VBool(v = 1)

BoolArm(v) == VBool(v /= 0)

DoubleArm(v) == ChainErr(ParseF64(v), "Failed to parse double")

(* An insert that keeps the value already stored for the key. *)
Insert_KeepFirst(map, k, v) ==
    [x \in DOMAIN map \cup {k} |-> IF x \in DOMAIN map THEN map[x] ELSE v]

(* HashMap::insert: a later value for a key replaces the earlier one. *)
Insert(map, k, v) == [x \in DOMAIN map \cup {k} |-> IF x = k THEN v ELSE map[x]]

(* HashMap::remove: the value removed, if any, and the map without the key. *)
Remove(map, k) ==
    [found |-> k \in DOMAIN map,
     value |-> IF k \in DOMAIN map THEN map[k] ELSE <<>>,
     rest  |-> [x \in DOMAIN map \ {k} |-> map[x]]]

EmptyMap == [x \in {} |-> <<>>]

RECURSIVE XmlValueInto(_)
RECURSIVE CollectVec(_, _)
RECURSIVE CollectMap(_, _)

(* A collect that puts each converted element in front of the earlier ones. *)
CollectVec_Reversed(items, acc) ==
    IF items = <<>> THEN Ok(acc)
    ELSE LET h == XmlValueInto(Head(items))
         IN IF ~h.ok THEN h ELSE CollectVec(Tail(items), <<h.val>> \o acc)

(* Iterator::collect into Result<Vec<Value>>: left to right, the first Err *)
(* ends the iteration and is the result.  The elements are XmlValue, or    *)
(* XmlParamData, whose conversion is that of its one field value; a param  *)
(* is identified with its value.                                           *)
CollectVec(items, acc) ==
    IF items = <<>> THEN Ok(acc)
    ELSE LET h == XmlValueInto(Head(items))
         IN IF ~h.ok THEN h ELSE CollectVec(Tail(items), Append(acc, h.val))

XmlArrayDataInto(value) == CollectVec(value, <<>>)

XmlArrayInto(data) == XmlArrayDataInto(data)

XmlParamsInto(params) == CollectVec(params, <<>>)

XmlStructItemInto(item) ==
    LET value == XmlValueInto(item.value)
    IN IF ~value.ok THEN value ELSE Ok(<<item.name, value.val>>)

(* Iterator::collect into Result<HashMap<String, Value>>. *)
CollectMap(members, acc) ==
    IF members = <<>> THEN Ok(acc)
    ELSE LET h == XmlStructItemInto(Head(members))
         IN IF ~h.ok THEN h
            ELSE CollectMap(Tail(members), Insert(acc, h.val[1], h.val[2]))

XmlStructInto(members) == CollectMap(members, EmptyMap)

XmlValueInto(x) ==
    CASE x.tag = "i4" -> Ok(I4Arm(x.content))
      [] x.tag = "int" -> Ok(IntArm(x.content))
      [] x.tag = "boolean" -> Ok(BoolArm(x.content))
      [] x.tag = "string" -> Ok(VString(x.content))
      [] x.tag = "double" ->
            LET d == DoubleArm(x.content) IN IF ~d.ok THEN d ELSE Ok(VDouble(d.val))
      [] x.tag = "dateTime.iso8601" -> Ok(VDateTime(x.content))
      [] x.tag = "base64" -> Ok(VBase64(x.content))
      [] x.tag = "array" ->
            LET items == XmlArrayInto(x.content)
            IN IF ~items.ok THEN items ELSE Ok(VArray(items.val))
      [] x.tag = "struct" ->
            LET items == XmlStructInto(x.content)
            IN IF ~items.ok THEN items ELSE Ok(VStruct(items.val))

---------------------------------------------------------------------------
(* impl Into<Result<Call>> for XmlCall. *)

XmlCallInto(call) ==
    LET params == XmlParamsInto(call.params)
    IN IF ~params.ok THEN params ELSE Ok(MkCall(call.name, params.val))

---------------------------------------------------------------------------
(* impl Into<Result<Response>> for XmlResponseResult and XmlResponse. *)

MsgCodeType == "Field \"faultCode\" needs to be an integer"

MsgCodeMissing == "Field \"faultCode\" is missing in fault response"

MsgStringType == "Field \"faultString\" needs to be a string"

MsgStringMissing == "Field \"faultString\" is missing in fault response"

MsgIllegal == "Illegal response structure for fault case."

(* A missing faultCode defaulting to 0. *)
FaultCodeField_Default(removed) ==
    IF removed.found
    THEN IF removed.value.type = "Int" THEN Ok(removed.value.payload) ELSE Bail(MsgCodeType)
    ELSE Ok(0)

FaultCodeField(removed) ==
    IF removed.found
    THEN IF removed.value.type = "Int" THEN Ok(removed.value.payload) ELSE Bail(MsgCodeType)
    ELSE Bail(MsgCodeMissing)

(* The two faultString messages exchanged. *)
FaultStringField_Swapped(removed) ==
    IF removed.found
    THEN IF removed.value.type = "String" THEN Ok(removed.value.payload) ELSE Bail(MsgStringMissing)
    ELSE Bail(MsgStringType)

FaultStringField(removed) ==
    IF removed.found
    THEN IF removed.value.type = "String" THEN Ok(removed.value.payload) ELSE Bail(MsgStringType)
    ELSE Bail(MsgStringMissing)

(* faultString checked before faultCode. *)
FaultFromFields_StringFirst(fields) ==
    LET r1      == Remove(fields, "faultString")
        message == FaultStringField(r1)
    IN IF ~message.ok THEN message
       ELSE LET r2   == Remove(r1.rest, "faultCode")
                code == FaultCodeField(r2)
            IN IF ~code.ok THEN code
               ELSE Ok(Fault(code.val, message.val))

(* A fault struct with any further field rejected. *)
FaultFromFields_Strict(fields) ==
    LET r1   == Remove(fields, "faultCode")
        code == FaultCodeField(r1)
    IN IF ~code.ok THEN code
       ELSE LET r2      == Remove(r1.rest, "faultString")
                message == FaultStringField(r2)
            IN IF ~message.ok THEN message
               ELSE IF DOMAIN r2.rest /= {} THEN Bail(MsgIllegal)
               ELSE Ok(Fault(code.val, message.val))

(* The body of the if-let on the fields of the fault struct. *)
FaultFromFields(fields) ==
    LET r1   == Remove(fields, "faultCode")
        code == FaultCodeField(r1)
    IN IF ~code.ok THEN code
       ELSE LET r2      == Remove(r1.rest, "faultString")
                message == FaultStringField(r2)
            IN IF ~message.ok THEN message
               ELSE Ok(Fault(code.val, message.val))

(* A failure of the payload's conversion reported as an illegal structure. *)
FailureInto_Swallow(v) ==
    LET val == XmlValueInto(v)
    IN IF val.ok /\ val.val.type = "Struct" THEN FaultFromFields(val.val.payload)
       ELSE Bail(MsgIllegal)

(* The arm XmlResponseResult::Failure. *)
FailureInto(v) ==
    LET val == XmlValueInto(v)
    IN IF ~val.ok THEN val
       ELSE IF val.val.type = "Struct" THEN FaultFromFields(val.val.payload)
       ELSE Bail(MsgIllegal)

(* The arm XmlResponseResult::Success. *)
SuccessInto(params) ==
    LET ps == XmlParamsInto(params)
    IN IF ~ps.ok THEN ps ELSE Ok(Success(ps.val))

XmlResponseResultInto(r) ==
    IF r.variant = "params" THEN SuccessInto(r.params) ELSE FailureInto(r.value)

XmlResponseInto(r) == XmlResponseResultInto(r)

---------------------------------------------------------------------------
(* serde_xml_rs::deserialize: the stream either deserializes into the tree *)
(* of the requested root type or fails with the deserializer's error.      *)

DeserializeError == "serde_xml_rs error"

Deserialize(root, r) == IF r.root = root THEN Ok(r.tree) ELSE Err(<<DeserializeError>>)

CtxData == "Failed to parse XML-RPC data."

CtxCall == "Failed to parse XML-RPC call."

CtxResponse == "Failed to parse XML-RPC response."

parse_xml(r) ==
    LET data == ChainErr(Deserialize("value", r), CtxData)
    IN IF ~data.ok THEN data ELSE XmlValueInto(data.val)

parse_call(r) ==
    LET data == ChainErr(Deserialize("methodCall", r), CtxCall)
    IN IF ~data.ok THEN data ELSE XmlCallInto(data.val)

(* The context attached to the conversion's failures as well. *)
parse_response_WrapAll(r) ==
    LET data == ChainErr(Deserialize("methodResponse", r), CtxResponse)
    IN IF ~data.ok THEN data ELSE ChainErr(XmlResponseInto(data.val), CtxResponse)

parse_response(r) ==
    LET data == ChainErr(Deserialize("methodResponse", r), CtxResponse)
    IN IF ~data.ok THEN data ELSE XmlResponseInto(data.val)

---------------------------------------------------------------------------
(* The input universe. *)

Node(tag, content) == [tag |-> tag, content |-> content]

Member(name, value) == [name |-> name, value |-> value]

RECURSIVE SeqsUpTo(_, _)
SeqsUpTo(S, n) ==
    IF n = 0 THEN {<<>>}
    ELSE LET shorter == SeqsUpTo(S, n - 1)
         IN shorter \cup {Append(s, x) : s \in {t \in shorter : Len(t) = n - 1}, x \in S}

I32Min == 0 - 2147483647 - 1

I32Max == 2147483647

IntVals == {I32Min, 0 - 5, 0, 1, 2, 4, I32Max}

StrVals == {"x", "Too many parameters."}

DoubleTexts == {<<"3", ".", "1", "4">>, <<"a", "b", "c">>, <<>>, <<"-", "5", ".", "5", "0">>, <<".">>}

Scalars ==
    {Node(t, n) : t \in {"i4", "int", "boolean"}, n \in IntVals}
      \cup {Node("string", s) : s \in StrVals}
      \cup {Node("double", d) : d \in DoubleTexts}
      \cup {Node("dateTime.iso8601", "19980717T14:08:55"), Node("base64", "eW91")}

(* The scalars that occur inside composites. *)
Kids ==
    {Node("i4", 4), Node("int", 7), Node("string", "x"),
     Node("double", <<"a", "b", "c">>), Node("double", <<>>)}

Names == {"faultCode", "faultString", "a"}

(* The children of arrays and params: scalars and small composites. *)
Items ==
    Kids \cup {Node("array", <<>>),
               Node("array", <<Node("double", <<>>)>>),
               Node("array", <<Node("boolean", 2), Node("int", 7)>>),
               Node("struct", <<Member("a", Node("double", <<"a", "b", "c">>))>>)}

Arrays == {Node("array", s) : s \in SeqsUpTo(Items, MaxItems)}

(* The member values of the enumerated structs. *)
MemberKids == Kids \ {Node("double", <<>>)}

Structs ==
    {Node("struct", s) : s \in SeqsUpTo({Member(n, k) : n \in Names, k \in MemberKids}, MaxMembers)}

(* Structs with a composite member, before or after a scalar one. *)
DeepStructs ==
    {Node("struct", <<Member(n, a), Member(m, k)>>) :
        n \in Names, m \in Names, a \in Items \ Kids, k \in Kids}
      \cup {Node("struct", <<Member(m, k), Member(n, a)>>) :
        n \in Names, m \in Names, a \in Items \ Kids, k \in Kids}

XmlValues == Scalars \cup Arrays \cup Structs \cup DeepStructs

ParamLists == SeqsUpTo(Items, MaxParams)

MethodNames == {"examples.getStateName", "sum"}

ValueStreams == {[root |-> "value", tree |-> x] : x \in XmlValues}

CallStreams ==
    {[root |-> "methodCall", tree |-> [name |-> n, params |-> ps]] :
        n \in MethodNames, ps \in ParamLists}

ResponseStreams ==
    {[root |-> "methodResponse", tree |-> [variant |-> "params", params |-> ps]] :
        ps \in ParamLists}
      \cup {[root |-> "methodResponse", tree |-> [variant |-> "fault", value |-> x]] :
        x \in XmlValues}

Streams == ValueStreams \cup CallStreams \cup ResponseStreams \cup {[root |-> "malformed", tree |-> <<>>]}

---------------------------------------------------------------------------
(* The state machine: a stream is given and one entry point is called. *)

Init ==
    /\ stream \in Streams
    /\ called = "none"
    /\ result = Err(<<>>)

ParseXml ==
    /\ called = "none"
    /\ called' = "parse_xml"
    /\ result' = parse_xml(stream)
    /\ UNCHANGED stream

ParseCall ==
    /\ called = "none"
    /\ called' = "parse_call"
    /\ result' = parse_call(stream)
    /\ UNCHANGED stream

ParseResponse ==
    /\ called = "none"
    /\ called' = "parse_response"
    /\ result' = parse_response(stream)
    /\ UNCHANGED stream

Next == ParseXml \/ ParseCall \/ ParseResponse

Spec == Init /\ [][Next]_vars

---------------------------------------------------------------------------
(* Vocabulary of the properties. *)

TypeOK ==
    /\ called \in {"none", "parse_xml", "parse_call", "parse_response"}
    /\ result.ok \in BOOLEAN
    /\ stream \in Streams

(* parse_response was called on a methodResponse that carries a fault. *)
FaultPath ==
    /\ called = "parse_response"
    /\ stream.root = "methodResponse"
    /\ stream.tree.variant = "fault"

(* The conversion of the fault payload by the value converter. *)
FaultConv == XmlValueInto(stream.tree.value)

FaultIsStruct == FaultConv.ok /\ FaultConv.val.type = "Struct"

FaultFields == FaultConv.val.payload

CodePresent == "faultCode" \in DOMAIN FaultFields

CodeIsInt == CodePresent /\ FaultFields["faultCode"].type = "Int"

StringPresent == "faultString" \in DOMAIN FaultFields

StringIsString == StringPresent /\ FaultFields["faultString"].type = "String"

IsFaultResult == result.ok /\ result.val.kind = "Fault"

FaultErrors == {<<MsgIllegal>>, <<MsgCodeMissing>>, <<MsgCodeType>>, <<MsgStringMissing>>, <<MsgStringType>>}

---------------------------------------------------------------------------
(* C1: parse_response returns Response::Fault{code, message} only if the   *)
(* converted fault value is a Struct with faultCode = Int(code) and        *)
(* faultString = String(message); in every other case of the fault path    *)
(* the result is an error, never a defaulted or partially filled Fault.    *)
C1_FaultOnlyWhenValid ==
    FaultPath =>
        /\ IsFaultResult =>
              /\ FaultIsStruct
              /\ CodePresent
              /\ FaultFields["faultCode"] = VInt(result.val.code)
              /\ StringPresent
              /\ FaultFields["faultString"] = VString(result.val.message)
        /\ ~(FaultIsStruct /\ CodeIsInt /\ StringIsString) => ~result.ok
        /\ result.ok => result.val.kind = "Fault"

C1_Witness ==
    /\ FaultPath
    /\ FaultIsStruct
    /\ CodeIsInt
    /\ ~StringPresent
    /\ ~result.ok

(* C2: the fault path reports five pairwise-distinct errors, each matching *)
(* its cause: payload not a Struct, faultCode absent, faultCode not an     *)
(* Int, faultString absent, faultString not a String; an absent field is   *)
(* never reported as wrong-typed nor a wrong-typed one as missing.         *)
C2_FaultErrorsMatchCause ==
    /\ Cardinality(FaultErrors) = 5
    /\ (FaultPath /\ FaultConv.ok /\ ~result.ok) =>
          /\ result.err \in FaultErrors
          /\ result.err = <<MsgIllegal>> <=> ~FaultIsStruct
          /\ result.err = <<MsgCodeMissing>> => FaultIsStruct /\ ~CodePresent
          /\ result.err = <<MsgCodeType>> => FaultIsStruct /\ CodePresent /\ ~CodeIsInt
          /\ result.err = <<MsgStringMissing>> => FaultIsStruct /\ ~StringPresent
          /\ result.err = <<MsgStringType>> => FaultIsStruct /\ StringPresent /\ ~StringIsString

C2_Witness ==
    /\ FaultPath
    /\ FaultIsStruct
    /\ CodeIsInt
    /\ StringPresent
    /\ ~StringIsString
    /\ result = Err(<<MsgStringType>>)

(* C10: fault validation is sequential, faultCode before faultString: when *)
(* faultCode is missing or not an Int the reported error is the faultCode  *)
(* error whatever the state of faultString; a faultString error is         *)
(* reported only when faultCode is present and an Int.                     *)
C10_CodeCheckedFirst ==
    (FaultPath /\ FaultIsStruct) =>
        /\ ~CodePresent => result = Err(<<MsgCodeMissing>>)
        /\ (CodePresent /\ ~CodeIsInt) => result = Err(<<MsgCodeType>>)
        /\ (~result.ok /\ result.err \in {<<MsgStringMissing>>, <<MsgStringType>>}) => CodeIsInt

C10_Witness ==
    /\ FaultPath
    /\ FaultIsStruct
    /\ CodePresent
    /\ ~CodeIsInt
    /\ StringPresent
    /\ ~StringIsString
    /\ result = Err(<<MsgCodeType>>)

---------------------------------------------------------------------------
(* The wire view of a stream, independent of the converters. *)

(* The entry point called is the one for the stream's root. *)
Matched ==
    \/ called = "parse_xml" /\ stream.root = "value"
    \/ called = "parse_call" /\ stream.root = "methodCall"
    \/ called = "parse_response" /\ stream.root = "methodResponse"

(* The value nodes directly under the root, in wire order. *)
TopValues(s) ==
    CASE s.root = "value" -> <<s.tree>>
      [] s.root = "methodCall" -> s.tree.params
      [] s.root = "methodResponse" ->
            IF s.tree.variant = "params" THEN s.tree.params ELSE <<s.tree.value>>
      [] OTHER -> <<>>

RECURSIVE Leaves(_)
RECURSIVE LeavesOfSeq(_)

(* The scalar nodes of a value, in document order. *)
Leaves(x) ==
    CASE x.tag = "array" -> LeavesOfSeq(x.content)
      [] x.tag = "struct" -> LeavesOfSeq([i \in 1..Len(x.content) |-> x.content[i].value])
      [] OTHER -> <<x>>

LeavesOfSeq(s) == IF s = <<>> THEN <<>> ELSE Leaves(Head(s)) \o LeavesOfSeq(Tail(s))

StreamLeaves == LeavesOfSeq(TopValues(stream))

FailingLeaves == {i \in 1..Len(StreamLeaves) : ~XmlValueInto(StreamLeaves[i]).ok}

FirstFailing == CHOOSE i \in FailingLeaves : \A j \in FailingLeaves : i <= j

(* The nesting depth of a value: 0 for a scalar. *)
RECURSIVE Depth(_)
Depth(x) ==
    LET kids == CASE x.tag = "array" -> {x.content[i] : i \in 1..Len(x.content)}
                  [] x.tag = "struct" -> {x.content[i].value : i \in 1..Len(x.content)}
                  [] OTHER -> {}
        ds   == {Depth(k) : k \in kids}
    IN IF x.tag \notin {"array", "struct"} THEN 0
       ELSE IF ds = {} THEN 1
       ELSE 1 + (CHOOSE d \in ds : \A e \in ds : e <= d)

(* The members of the fault payload when it is a struct node. *)
FaultMembers == IF stream.tree.value.tag = "struct" THEN stream.tree.value.content ELSE <<>>

Named(ms, n) == {i \in 1..Len(ms) : ms[i].name = n}

LastNamed(ms, n) == ms[CHOOSE i \in Named(ms, n) : \A j \in Named(ms, n) : j <= i]

---------------------------------------------------------------------------
(* C3, as stated: when the fault struct has a faultCode member of type int *)
(* (value c) and a faultString member of type string (value m), the result *)
(* is Fault{c, m} for every set of additional members, whatever their      *)
(* names and values.  Stated for a struct with one faultCode and one       *)
(* faultString member, so that the additional members bear other names.    *)
C3_AsStated ==
    (/\ FaultPath
     /\ stream.tree.value.tag = "struct"
     /\ Cardinality(Named(FaultMembers, "faultCode")) = 1
     /\ Cardinality(Named(FaultMembers, "faultString")) = 1
     /\ LastNamed(FaultMembers, "faultCode").value.tag \in {"i4", "int"}
     /\ LastNamed(FaultMembers, "faultString").value.tag = "string")
    => result = Ok(Fault(LastNamed(FaultMembers, "faultCode").value.content,
                         LastNamed(FaultMembers, "faultString").value.content))

(* C3, amended: when every member of the fault struct converts, the last   *)
(* member named faultCode is an int (value c) and the last member named    *)
(* faultString is a string (value m), the result is Fault{c, m}; the       *)
(* members of other names are ignored, whatever their names and values.    *)
C3_FaultIgnoresOtherMembers ==
    (/\ FaultPath
     /\ stream.tree.value.tag = "struct"
     /\ FailingLeaves = {}
     /\ Named(FaultMembers, "faultCode") /= {}
     /\ Named(FaultMembers, "faultString") /= {}
     /\ LastNamed(FaultMembers, "faultCode").value.tag \in {"i4", "int"}
     /\ LastNamed(FaultMembers, "faultString").value.tag = "string")
    => result = Ok(Fault(LastNamed(FaultMembers, "faultCode").value.content,
                         LastNamed(FaultMembers, "faultString").value.content))

C3_Witness ==
    /\ FaultPath
    /\ stream.tree.value.tag = "struct"
    /\ FailingLeaves = {}
    /\ Named(FaultMembers, "a") /= {}
    /\ LastNamed(FaultMembers, "a").value.tag \in {"array", "string"}
    /\ Named(FaultMembers, "faultCode") /= {}
    /\ result = Ok(Fault(7, "x"))

---------------------------------------------------------------------------
(* The sequence seq is the element-wise conversion of the wire nodes. *)
ConvertsInOrder(nodes, seq) ==
    /\ Len(seq) = Len(nodes)
    /\ \A i \in 1..Len(nodes) : seq[i] = XmlValueInto(nodes[i]).val

AllConvert(nodes) == \A i \in 1..Len(nodes) : XmlValueInto(nodes[i]).ok

(* C4: every sequence conversion preserves length and order: for a         *)
(* methodCall, a success methodResponse and an array whose n children all  *)
(* convert, the resulting params or Array has exactly n elements, the i-th *)
(* being the conversion of the i-th wire element; the Call carries the     *)
(* methodName unchanged.                                                   *)
C4_SequencesKeepOrder ==
    /\ (called = "parse_call" /\ stream.root = "methodCall" /\ AllConvert(stream.tree.params)) =>
          /\ result.ok
          /\ result.val.name = stream.tree.name
          /\ ConvertsInOrder(stream.tree.params, result.val.params)
    /\ (/\ called = "parse_response"
        /\ stream.root = "methodResponse"
        /\ stream.tree.variant = "params"
        /\ AllConvert(stream.tree.params)) =>
          /\ result.ok
          /\ result.val.kind = "Success"
          /\ ConvertsInOrder(stream.tree.params, result.val.params)
    /\ (/\ called = "parse_xml"
        /\ stream.root = "value"
        /\ stream.tree.tag = "array"
        /\ AllConvert(stream.tree.content)) =>
          /\ result.ok
          /\ result.val.type = "Array"
          /\ ConvertsInOrder(stream.tree.content, result.val.payload)

C4_Witness ==
    /\ called = "parse_xml"
    /\ stream.root = "value"
    /\ stream.tree.tag = "array"
    /\ Len(stream.tree.content) = 3
    /\ result.ok
    /\ result.val.payload[1] = VInt(4)
    /\ result.val.payload[2] = VString("x")
    /\ result.val.payload[3] = VArray(<<VBool(TRUE), VInt(7)>>)

(* C5: for a struct whose members all convert, the resulting Struct has    *)
(* exactly the distinct member names as keys and each key maps to the      *)
(* converted value of the last member in wire order carrying that name.    *)
C5_StructLastWins ==
    (/\ called = "parse_xml"
     /\ stream.root = "value"
     /\ stream.tree.tag = "struct"
     /\ \A i \in 1..Len(stream.tree.content) : XmlValueInto(stream.tree.content[i].value).ok)
    => /\ result.ok
       /\ result.val.type = "Struct"
       /\ DOMAIN result.val.payload = {stream.tree.content[i].name : i \in 1..Len(stream.tree.content)}
       /\ \A n \in DOMAIN result.val.payload :
             result.val.payload[n] = XmlValueInto(LastNamed(stream.tree.content, n).value).val

C5_Witness ==
    /\ called = "parse_xml"
    /\ stream.root = "value"
    /\ stream.tree.tag = "struct"
    /\ Len(stream.tree.content) = 3
    /\ stream.tree.content[1] = Member("a", Node("i4", 4))
    /\ stream.tree.content[3] = Member("a", Node("string", "x"))
    /\ result.ok
    /\ result.val.payload["a"] = VString("x")

(* C6: conversion is all-or-nothing and inner errors propagate unchanged:  *)
(* if a value nested at any depth fails to convert, the whole conversion   *)
(* returns an error, which is exactly the error of the first failing leaf  *)
(* in document order, not a later one and not replaced or wrapped (in the  *)
(* fault path it is not the "Illegal response structure" error).           *)
C6_FirstLeafErrorPropagates ==
    (Matched /\ FailingLeaves /= {}) =>
        /\ ~result.ok
        /\ result.err = XmlValueInto(StreamLeaves[FirstFailing]).err

C6_Witness ==
    /\ Matched
    /\ \E i \in FailingLeaves : \E j \in FailingLeaves :
          /\ i < j
          /\ XmlValueInto(StreamLeaves[i]).err /= XmlValueInto(StreamLeaves[j]).err
    /\ \E k \in 1..Len(TopValues(stream)) : Depth(TopValues(stream)[k]) = 2
    /\ result.err = <<"Failed to parse double", "cannot parse float from empty string">>

---------------------------------------------------------------------------
(* The context message of the entry point called. *)
Context ==
    CASE called = "parse_xml" -> CtxData
      [] called = "parse_call" -> CtxCall
      [] called = "parse_response" -> CtxResponse

Contexts == {CtxData, CtxCall, CtxResponse}

(* The fault payload converts to a Value that is not a Struct. *)
FaultNotStruct == FaultPath /\ FaultConv.ok /\ ~FaultIsStruct

(* C7, as stated: every failure returned by the three entry points carries *)
(* the context naming the attempted conversion; when parse_response fails  *)
(* because the fault payload is not a struct the error is "Failed to parse *)
(* XML-RPC response" wrapping "Illegal response structure for fault case". *)
C7_AsStated ==
    /\ (called /= "none" /\ ~result.ok) => Head(result.err) = Context
    /\ FaultNotStruct => result = Err(<<CtxResponse, MsgIllegal>>)

(* C7, amended: a failure of the deserializer carries the context naming   *)
(* the attempted conversion, wrapping the deserializer's error; a failure  *)
(* of the conversion is returned as it is, without that context: when the  *)
(* fault payload is not a struct the error of parse_response is "Illegal   *)
(* response structure for fault case." alone.                              *)
C7_ContextOnlyOnDeserializeFailure ==
    called /= "none" =>
        /\ ~Matched => result = Err(<<Context, DeserializeError>>)
        /\ (Matched /\ ~result.ok) => Head(result.err) \notin Contexts
        /\ FaultNotStruct => result = Err(<<MsgIllegal>>)

C7_Witness ==
    /\ FaultNotStruct
    /\ stream.tree.value.tag = "array"
    /\ result = Err(<<MsgIllegal>>)

---------------------------------------------------------------------------
RECURSIVE SwapTag(_)

(* The same value with the tags i4 and int exchanged at every depth. *)
SwapTag(x) ==
    CASE x.tag = "i4" -> Node("int", x.content)
      [] x.tag = "int" -> Node("i4", x.content)
      [] x.tag = "array" -> Node("array", [i \in 1..Len(x.content) |-> SwapTag(x.content[i])])
      [] x.tag = "struct" ->
            Node("struct", [i \in 1..Len(x.content) |->
                               Member(x.content[i].name, SwapTag(x.content[i].value))])
      [] OTHER -> x

SwapSeq(s) == [i \in 1..Len(s) |-> SwapTag(s[i])]

SwapStream(s) ==
    CASE s.root = "value" -> [root |-> "value", tree |-> SwapTag(s.tree)]
      [] s.root = "methodCall" ->
            [root |-> "methodCall", tree |-> [name |-> s.tree.name, params |-> SwapSeq(s.tree.params)]]
      [] s.root = "methodResponse" ->
            [root |-> "methodResponse",
             tree |-> IF s.tree.variant = "params"
                      THEN [variant |-> "params", params |-> SwapSeq(s.tree.params)]
                      ELSE [variant |-> "fault", value |-> SwapTag(s.tree.value)]]
      [] OTHER -> s

Apply(entry, s) ==
    CASE entry = "parse_xml" -> parse_xml(s)
      [] entry = "parse_call" -> parse_call(s)
      [] entry = "parse_response" -> parse_response(s)

IntTags(x) == {i \in 1..Len(Leaves(x)) : Leaves(x)[i].tag \in {"i4", "int"}}

(* C8: for every 32-bit signed integer n, a value node tagged i4 and one   *)
(* tagged int with content n both convert to Value::Int(n); the tag used   *)
(* is not observable in the output, also when the node is nested in an     *)
(* array, struct or params list.                                           *)
C8_I4AndIntAgree ==
    /\ (called = "parse_xml" /\ stream.root = "value" /\ stream.tree.tag \in {"i4", "int"}) =>
          /\ stream.tree.content \in I32Min..I32Max
          /\ result = Ok(VInt(stream.tree.content))
          /\ result = XmlValueInto(SwapTag(stream.tree))
    /\ called /= "none" => result = Apply(called, SwapStream(stream))

C8_Witness ==
    /\ called = "parse_xml"
    /\ stream.root = "value"
    /\ stream.tree = Node("i4", I32Min)
    /\ result = Ok(VInt(I32Min))

(* C9: for every 32-bit signed integer n carried by a boolean node the     *)
(* conversion succeeds, with Bool(false) when n = 0 and Bool(true) for     *)
(* every other n, negative values and values above 1 included.             *)
C9_BooleanZeroIsFalse ==
    /\ (called = "parse_xml" /\ stream.root = "value" /\ stream.tree.tag = "boolean") =>
          /\ stream.tree.content \in I32Min..I32Max
          /\ result.ok
          /\ result.val.type = "Bool"
          /\ (stream.tree.content = 0 => result.val.payload = FALSE)
          /\ (stream.tree.content /= 0 => result.val.payload = TRUE)
    /\ (/\ called = "parse_xml"
        /\ stream.root = "value"
        /\ stream.tree.tag = "array"
        /\ result.ok) =>
          \A i \in 1..Len(stream.tree.content) :
             stream.tree.content[i].tag = "array" =>
                \A j \in 1..Len(stream.tree.content[i].content) :
                   stream.tree.content[i].content[j].tag = "boolean" =>
                      result.val.payload[i].payload[j] =
                         (IF stream.tree.content[i].content[j].content = 0
                          THEN VBool(FALSE) ELSE VBool(TRUE))

C9_Witness ==
    /\ called = "parse_xml"
    /\ stream.root = "value"
    /\ stream.tree = Node("boolean", 0 - 5)
    /\ result = Ok(VBool(TRUE))
====
